---- MODULE Spec2Model ----
(***************************************************************************)
(* billy-cgofuse: the wrapper that serves cgofuse callbacks from a Billy   *)
(* filesystem (lib.go).  The model covers the file descriptor table        *)
(* (fdMtx, fileDescriptors, nextFd, writeLocks), the callbacks that use    *)
(* it, and the capability-checked callbacks.  Every callback runs on its   *)
(* own thread; a thread's position is pc[t], its arguments, locals and     *)
(* results are call[t].  A thread whose pc names a Billy method            *)
(* ("OpenFile", "ReadAt", ...) is inside that call of the abstraction.     *)
(***************************************************************************)
EXTENDS Integers, Sequences, FiniteSets, TLC

\* ---------------------------------------------------------------- bounds
NumThreads == 2      \* callbacks the driver runs concurrently
MaxFd == 2           \* handles issued in a run (cap on nextFd)
MaxFiles == 2        \* file objects the abstraction hands out in a run
MaxN == 1            \* largest byte count a read or write reports
MaxTmsp == 3         \* longest timestamp slice passed to Utimens
MaxEntries == 2      \* most entries a directory listing returns

Threads == 1..NumThreads

\* ------------------------------------------------------ program constants
\* ^uint64(0), the "no handle" value of Truncate: all 64 bits set, which is
\* -1 read as a signed 64-bit number.
NoFd == -1
\* fuse error numbers (the callbacks return them negated)
EPERM == 1
ENOENT == 2
EIO == 5
EEXIST == 17
EINVAL == 22
ENOSYS == 38

\* Handles a caller can pass to a handle-based callback: issued ones, 0 (the
\* failure value) and, below MaxFd, ones not issued yet.
Handles == 0..MaxFd

\* ----------------------------------------------------------------- errors
\* An error value is the set of classes the os predicates report for it.
\* NilErr is Go's nil; the empty set is an error of no known class.
ErrClasses == {"exist", "notexist", "perm", "invalid", "closed"}
NilErr == {"nil"}
EOF == {"eof"}
NoErr == {"none"}      \* local err before any abstraction call has returned
\* errors the abstraction returns in the concurrent specification
AbsErrs == {NilErr, {"notexist"}, {"closed"}, {}}
\* error values convertError is applied to: nil, an error of no class
\* (io.EOF among them), an error of one class, and one that wraps both
\* os.ErrInvalid and os.ErrClosed.  os.IsExist, os.IsNotExist and
\* os.IsPermission look at one underlying error, so no error is in two of
\* the first three classes, or in one of them and the fourth.
ConvInputs ==
    {NilErr, {}, EOF, {"invalid", "closed"}} \cup {{c} : c \in ErrClasses}
\* errors the abstraction returns in the capability specification
CapErrs == {NilErr, {}} \cup {{c} : c \in ErrClasses}

\* convertError without the errors.Is(err, os.ErrClosed) test
convertError_NoClosed(err) ==
    IF err = NilErr THEN 0
    ELSE IF "exist" \in err THEN -EEXIST
    ELSE IF "notexist" \in err THEN -ENOENT
    ELSE IF "perm" \in err THEN -EPERM
    ELSE IF "invalid" \in err THEN -EINVAL
    ELSE -EIO

\* convertError that reports success for every error
convertError_Zero(err) == 0

convertError(err) ==
    IF err = NilErr THEN 0
    ELSE IF "exist" \in err THEN -EEXIST
    ELSE IF "notexist" \in err THEN -ENOENT
    ELSE IF "perm" \in err THEN -EPERM
    ELSE IF "invalid" \in err \/ "closed" \in err THEN -EINVAL
    ELSE -EIO

\* ------------------------------------------------------------------ state
VARIABLES
    underlying,       \* optional interfaces the Billy filesystem implements
    fdMtx,            \* holder of w.fdMtx, 0 when unlocked
    fileDescriptors,  \* w.fileDescriptors: handle -> file object
    nextFd,           \* w.nextFd
    writeLocks,       \* w.writeLocks: handle -> mutex object
    mutexes,          \* every sync.Mutex made so far: its holder, 0 if unlocked
    files,            \* every file object the abstraction returned so far
    pc,               \* position of each thread
    call,             \* arguments, locals and results of each thread's callback
    issued,           \* history: handles returned by Create, Open, Opendir
    released,         \* history: handles removed by Release
    dirs              \* history: handles returned by Opendir

vars == <<underlying, fdMtx, fileDescriptors, nextFd, writeLocks, mutexes,
          files, pc, call, issued, released, dirs>>

table == <<fileDescriptors, nextFd, writeLocks, mutexes>>

Caps == {"Dir", "Symlink", "Change"}

\* ------------------------------------------------------------ Go map ops
\* delete(m, k) that leaves the entry in place
MapDelete_Keep(m, k) == m

\* m[k] = v that stores nothing
MapPut_Drop(m, k, v) == m

MapPut(m, k, v) == [x \in DOMAIN m \cup {k} |-> IF x = k THEN v ELSE m[x]]
MapDelete(m, k) == [x \in DOMAIN m \ {k} |-> m[x]]

\* w.nextFd++ that does not advance
Incr_Stuck(n) == n

Incr(n) == n + 1

\* sync.Mutex.Lock can return only when the mutex is unlocked
MutexFree(m) == mutexes[m] = 0

\* ------------------------------------------------------------ call frames
NewCall(op, fd) ==
    [op |-> op, fd |-> fd, tmsp |-> 0, fh |-> 0, ok |-> FALSE, unlock |-> 0,
     n |-> 0, err |-> NoErr, ret |-> 0, rfd |-> 0, rstr |-> "",
     unlocks |-> 0,    \* history: times this callback has called unlock()
     fills |-> 0]      \* history: times this callback has called fill

\* the thread is not inside a callback: none started, or the last one
\* returned ("done") or panicked ("panic")
Free(t) == pc[t] \in {"idle", "done", "panic"}

\* positions inside a call of the abstraction
AbsCalls == {"OpenFile", "ReadAt", "WriteAt", "Seek", "Write", "Truncate",
             "Close", "MkdirAll", "Symlink", "Readlink", "Chmod", "Chown",
             "Chtimes", "ReadDir"}
InAbstraction(t) == pc[t] \in AbsCalls

\* callbacks in flight that will still advance nextFd / still may get a file
PendingFd ==
    Cardinality({t \in DOMAIN pc :
        \/ pc[t] = "OpenFile" /\ call[t].op \in {"Create", "Open"}
        \/ pc[t] \in {"cfd_lock", "cfd_store", "od_lock", "od_body"}})
PendingFile == Cardinality({t \in DOMAIN pc : pc[t] = "OpenFile"})

Init ==
    /\ underlying = Caps
    /\ fdMtx = 0
    /\ fileDescriptors = <<>>
    /\ nextFd = 0
    /\ writeLocks = <<>>
    /\ mutexes = <<>>
    /\ files = <<>>
    /\ pc = [t \in Threads |-> "idle"]
    /\ call = [t \in Threads |-> NewCall("none", 0)]
    /\ issued = {}
    /\ released = {}
    /\ dirs = {}

\* ------------------------------------------------------- Create and Open
Create(t) ==
    /\ Free(t)
    /\ nextFd + PendingFd < MaxFd
    /\ Len(files) + PendingFile < MaxFiles
    /\ pc' = [pc EXCEPT ![t] = "OpenFile"]
    /\ call' = [call EXCEPT ![t] = NewCall("Create", 0)]
    /\ UNCHANGED <<underlying, fdMtx, table, files, issued, released, dirs>>

Open(t) ==
    /\ Free(t)
    /\ nextFd + PendingFd < MaxFd
    /\ Len(files) + PendingFile < MaxFiles
    /\ pc' = [pc EXCEPT ![t] = "OpenFile"]
    /\ call' = [call EXCEPT ![t] = NewCall("Open", 0)]
    /\ UNCHANGED <<underlying, fdMtx, table, files, issued, released, dirs>>

\* w.underlying.OpenFile returns: an error, or a new file object, which may
\* or may not implement io.WriterAt.
OpenFileReturn(t) ==
    /\ pc[t] = "OpenFile"
    /\ \/ \E e \in AbsErrs \ {NilErr} :
            /\ call' = [call EXCEPT ![t].err = e, ![t].ret = convertError(e),
                                    ![t].rfd = 0]
            /\ pc' = [pc EXCEPT ![t] = "done"]
            /\ files' = files
       \/ \E wa \in BOOLEAN :
            /\ files' = Append(files, [writerAt |-> wa, closes |-> 0])
            /\ call' = [call EXCEPT ![t].err = NilErr,
                                    ![t].fh = Len(files) + 1]
            /\ pc' = [pc EXCEPT ![t] =
                        IF call[t].op = "Truncate" THEN "Truncate"
                        ELSE "cfd_lock"]
    /\ UNCHANGED <<underlying, fdMtx, table, issued, released, dirs>>

\* createFileDescriptor: w.fdMtx.Lock()
cfdLock(t) ==
    /\ pc[t] = "cfd_lock"
    /\ fdMtx = 0
    /\ fdMtx' = t
    /\ pc' = [pc EXCEPT ![t] = "cfd_store"]
    /\ UNCHANGED <<underlying, table, files, call, issued, released, dirs>>

\* createFileDescriptor: w.nextFd++; fd := w.nextFd; w.fileDescriptors[fd] = fh
cfdStore(t) ==
    /\ pc[t] = "cfd_store"
    /\ nextFd' = Incr(nextFd)
    /\ fileDescriptors' = MapPut(fileDescriptors, nextFd', call[t].fh)
    /\ call' = [call EXCEPT ![t].rfd = nextFd']
    /\ pc' = [pc EXCEPT ![t] = "cfd_mutex"]
    /\ UNCHANGED <<underlying, fdMtx, writeLocks, mutexes, files, issued,
                   released, dirs>>

\* createFileDescriptor: w.writeLocks[fd] = new(sync.Mutex); return fd, with
\* the deferred w.fdMtx.Unlock(); Create/Open return 0 and the handle.
cfdNewLock(t) ==
    /\ pc[t] = "cfd_mutex"
    /\ mutexes' = Append(mutexes, 0)
    /\ writeLocks' = MapPut(writeLocks, call[t].rfd, Len(mutexes) + 1)
    /\ fdMtx' = 0
    /\ call' = [call EXCEPT ![t].ret = 0]
    /\ pc' = [pc EXCEPT ![t] = "done"]
    /\ issued' = issued \cup {call[t].rfd}
    /\ UNCHANGED <<underlying, fileDescriptors, nextFd, files, released, dirs>>

\* ------------------------------------------------------ getFileDescriptor
\* getFileDescriptor: w.fdMtx.Lock()
gfdLock(t) ==
    /\ pc[t] = "gfd_lock"
    /\ fdMtx = 0
    /\ fdMtx' = t
    /\ pc' = [pc EXCEPT ![t] = "gfd_lookup"]
    /\ UNCHANGED <<underlying, table, files, call, issued, released, dirs>>

\* getFileDescriptor: fh, ok := w.fileDescriptors[fd]; return, with the
\* deferred w.fdMtx.Unlock().  The caller (Read, Truncate) returns -EINVAL
\* if !ok and otherwise calls the file object.
gfdLookup(t) ==
    /\ pc[t] = "gfd_lookup"
    /\ fdMtx' = 0
    /\ LET fd == call[t].fd
           ok == fd \in DOMAIN fileDescriptors
       IN IF ok
          THEN /\ call' = [call EXCEPT ![t].ok = TRUE,
                                       ![t].fh = fileDescriptors[fd]]
               /\ pc' = [pc EXCEPT ![t] =
                           IF call[t].op = "Read" THEN "ReadAt" ELSE "Truncate"]
          ELSE /\ call' = [call EXCEPT ![t].ok = FALSE, ![t].ret = -EINVAL]
               /\ pc' = [pc EXCEPT ![t] = "done"]
    /\ UNCHANGED <<underlying, table, files, issued, released, dirs>>

\* ---------------------------------------------------------------- Truncate
\* Truncate with a handle looks the handle up; with ^uint64(0) it opens the
\* path itself.
Truncate(t, fd) ==
    /\ Free(t)
    /\ fd = NoFd => Len(files) + PendingFile < MaxFiles
    /\ pc' = [pc EXCEPT ![t] = IF fd # NoFd THEN "gfd_lock" ELSE "OpenFile"]
    /\ call' = [call EXCEPT ![t] = NewCall("Truncate", fd)]
    /\ UNCHANGED <<underlying, fdMtx, table, files, issued, released, dirs>>

\* a path Truncate that closes the file only after a successful truncate
AfterTruncate_NoDefer(fd, e) ==
    IF fd = NoFd /\ e = NilErr THEN "Close" ELSE "done"

\* where Truncate goes once fh.Truncate returned e: the path form has a
\* deferred fh.Close() to run, whatever e is; the handle form returns.
AfterTruncate(fd, e) == IF fd = NoFd THEN "Close" ELSE "done"

\* fh.Truncate(size) returns; the path form then runs the deferred
\* fh.Close(), whose result is dropped.
TruncateReturn(t) ==
    /\ pc[t] = "Truncate"
    /\ \E e \in AbsErrs :
         /\ call' = [call EXCEPT ![t].err = e, ![t].ret = convertError(e)]
         /\ pc' = [pc EXCEPT ![t] = AfterTruncate(call[t].fd, e)]
    /\ UNCHANGED <<underlying, fdMtx, table, files, issued, released, dirs>>

\* -------------------------------------------------------------------- Read
Read(t, fd) ==
    /\ Free(t)
    /\ pc' = [pc EXCEPT ![t] = "gfd_lock"]
    /\ call' = [call EXCEPT ![t] = NewCall("Read", fd)]
    /\ UNCHANGED <<underlying, fdMtx, table, files, issued, released, dirs>>

\* Read that reports the count only when the read reported no error
ReadResult_NilOnly(n, e) == IF e = NilErr THEN n ELSE convertError(e)

\* Read's result: n if n > 0 || err == io.EOF, else the translated error
ReadResult(n, e) == IF n > 0 \/ e = EOF THEN n ELSE convertError(e)

\* n, err := fh.ReadAt(buff, ofst) returns
ReadAtReturn(t) ==
    /\ pc[t] = "ReadAt"
    /\ \E n \in 0..MaxN, e \in AbsErrs \cup {EOF} :
         call' = [call EXCEPT ![t].n = n, ![t].err = e,
                              ![t].ret = ReadResult(n, e)]
    /\ pc' = [pc EXCEPT ![t] = "done"]
    /\ UNCHANGED <<underlying, fdMtx, table, files, issued, released, dirs>>

\* ------------------------------------------------------------------- Write
Write(t, fd) ==
    /\ Free(t)
    /\ pc' = [pc EXCEPT ![t] = "gfl_lock"]
    /\ call' = [call EXCEPT ![t] = NewCall("Write", fd)]
    /\ UNCHANGED <<underlying, fdMtx, table, files, issued, released, dirs>>

\* getFileDescriptorWithLock: w.fdMtx.Lock(); fh, ok := w.fileDescriptors[fd]
gflLock(t) ==
    /\ pc[t] = "gfl_lock"
    /\ fdMtx = 0
    /\ fdMtx' = t
    /\ LET fd == call[t].fd
           ok == fd \in DOMAIN fileDescriptors
       IN call' = [call EXCEPT ![t].ok = ok,
                     ![t].fh = IF ok THEN fileDescriptors[fd] ELSE 0]
    /\ pc' = [pc EXCEPT ![t] = "gfl_wlock"]
    /\ UNCHANGED <<underlying, table, files, issued, released, dirs>>

\* getFileDescriptorWithLock: w.writeLocks[fd].Lock(), still holding fdMtx.
\* A handle with no entry yields a nil *sync.Mutex, and Lock on it panics
\* with a nil dereference; the deferred w.fdMtx.Unlock() runs and the panic
\* leaves the callback.  Otherwise the call waits until the mutex is
\* unlocked, locks it, and returns fh, unlock, ok, unlocking fdMtx.
gflWLock(t) ==
    /\ pc[t] = "gfl_wlock"
    /\ LET fd == call[t].fd IN
       IF fd \notin DOMAIN writeLocks
       THEN /\ fdMtx' = 0
            /\ pc' = [pc EXCEPT ![t] = "panic"]
            /\ UNCHANGED <<mutexes, call>>
       ELSE /\ MutexFree(writeLocks[fd])
            /\ mutexes' = [mutexes EXCEPT ![writeLocks[fd]] = t]
            /\ call' = [call EXCEPT ![t].unlock = writeLocks[fd]]
            /\ fdMtx' = 0
            /\ pc' = [pc EXCEPT ![t] = "w_check"]
    /\ UNCHANGED <<underlying, fileDescriptors, nextFd, writeLocks, files,
                   issued, released, dirs>>

\* the fast path keeps the write lock while WriteAt runs
FastPathUnlock_Kept(ms, m) == ms

\* unlock() on the fast path, before WriteAt
FastPathUnlock(ms, m) == [ms EXCEPT ![m] = 0]

\* the fallback path unlocks before Seek instead of deferring the unlock
FallbackHold_Dropped(ms, m) == [ms EXCEPT ![m] = 0]

\* defer unlock() on the fallback path: the lock stays held for now
FallbackHold(ms, m) == ms

\* Write after getFileDescriptorWithLock returned: -EINVAL if !ok; with an
\* io.WriterAt, unlock() and call WriteAt; otherwise defer unlock() and call
\* Seek.
WriteCheck(t) ==
    /\ pc[t] = "w_check"
    /\ LET m == call[t].unlock IN
       IF ~call[t].ok
       THEN /\ call' = [call EXCEPT ![t].ret = -EINVAL]
            /\ pc' = [pc EXCEPT ![t] = "done"]
            /\ UNCHANGED mutexes
       ELSE IF files[call[t].fh].writerAt
       THEN /\ mutexes' = FastPathUnlock(mutexes, m)
            /\ pc' = [pc EXCEPT ![t] = "WriteAt"]
            /\ call' = [call EXCEPT ![t].unlocks = @ + 1]
       ELSE /\ mutexes' = FallbackHold(mutexes, m)
            /\ pc' = [pc EXCEPT ![t] = "Seek"]
            /\ UNCHANGED call
    /\ UNCHANGED <<underlying, fdMtx, fileDescriptors, nextFd, writeLocks,
                   files, issued, released, dirs>>

\* n, err := wa.WriteAt(buff, ofst)
WriteAtReturn(t) ==
    /\ pc[t] = "WriteAt"
    /\ \E n \in 0..MaxN, e \in AbsErrs :
         call' = [call EXCEPT ![t].n = n, ![t].err = e,
                    ![t].ret = IF e # NilErr THEN convertError(e) ELSE n]
    /\ pc' = [pc EXCEPT ![t] = "done"]
    /\ UNCHANGED <<underlying, fdMtx, table, files, issued, released, dirs>>

\* a fallback path that returns without running unlock()
DeferredUnlock_Missing(ms, m) == ms

\* the deferred unlock() of the fallback path
DeferredUnlock(ms, m) == [ms EXCEPT ![m] = 0]

\* fh.Seek(ofst, io.SeekStart) returns: on an error the translated error is
\* returned and the deferred unlock() runs; otherwise fh.Write is called.
SeekReturn(t) ==
    /\ pc[t] = "Seek"
    /\ \E e \in AbsErrs :
         IF e # NilErr
         THEN /\ call' = [call EXCEPT ![t].err = e, ![t].ret = convertError(e),
                                      ![t].unlocks = @ + 1]
              /\ mutexes' = DeferredUnlock(mutexes, call[t].unlock)
              /\ pc' = [pc EXCEPT ![t] = "done"]
         ELSE /\ call' = [call EXCEPT ![t].err = e]
              /\ pc' = [pc EXCEPT ![t] = "Write"]
              /\ UNCHANGED mutexes
    /\ UNCHANGED <<underlying, fdMtx, fileDescriptors, nextFd, writeLocks,
                   files, issued, released, dirs>>

\* n, err := fh.Write(buff) returns, then the deferred unlock()
WriteReturn(t) ==
    /\ pc[t] = "Write"
    /\ \E n \in 0..MaxN, e \in AbsErrs :
         call' = [call EXCEPT ![t].n = n, ![t].err = e,
                    ![t].ret = IF e # NilErr THEN convertError(e) ELSE n,
                    ![t].unlocks = @ + 1]
    /\ mutexes' = DeferredUnlock(mutexes, call[t].unlock)
    /\ pc' = [pc EXCEPT ![t] = "done"]
    /\ UNCHANGED <<underlying, fdMtx, fileDescriptors, nextFd, writeLocks,
                   files, issued, released, dirs>>

\* ----------------------------------------------------------------- Release
Release(t, fd) ==
    /\ Free(t)
    /\ pc' = [pc EXCEPT ![t] = "rel_lock"]
    /\ call' = [call EXCEPT ![t] = NewCall("Release", fd)]
    /\ UNCHANGED <<underlying, fdMtx, table, files, issued, released, dirs>>

\* Release: w.fdMtx.Lock()
relLock(t) ==
    /\ pc[t] = "rel_lock"
    /\ fdMtx = 0
    /\ fdMtx' = t
    /\ pc' = [pc EXCEPT ![t] = "rel_lookup"]
    /\ UNCHANGED <<underlying, table, files, call, issued, released, dirs>>

\* Release: fh, ok := w.fileDescriptors[fd]; if !ok return -EINVAL (with the
\* deferred unlock); delete(w.fileDescriptors, fd)
relLookup(t) ==
    /\ pc[t] = "rel_lookup"
    /\ LET fd == call[t].fd IN
       IF fd \in DOMAIN fileDescriptors
       THEN /\ call' = [call EXCEPT ![t].ok = TRUE,
                                    ![t].fh = fileDescriptors[fd]]
            /\ fileDescriptors' = MapDelete(fileDescriptors, fd)
            /\ released' = released \cup {fd}
            /\ pc' = [pc EXCEPT ![t] = "rel_dellock"]
            /\ UNCHANGED fdMtx
       ELSE /\ call' = [call EXCEPT ![t].ok = FALSE, ![t].ret = -EINVAL]
            /\ fdMtx' = 0
            /\ pc' = [pc EXCEPT ![t] = "done"]
            /\ UNCHANGED <<fileDescriptors, released>>
    /\ UNCHANGED <<underlying, nextFd, writeLocks, mutexes, files, issued, dirs>>

\* Release that leaves the handle's mutex in w.writeLocks
DeleteWriteLock_Forgot(m, k) == m

\* delete(w.writeLocks, fd)
DeleteWriteLock(m, k) == MapDelete(m, k)

\* Release: delete(w.writeLocks, fd), then fh.Close() is called
relDelLock(t) ==
    /\ pc[t] = "rel_dellock"
    /\ writeLocks' = DeleteWriteLock(writeLocks, call[t].fd)
    /\ pc' = [pc EXCEPT ![t] = "Close"]
    /\ UNCHANGED <<underlying, fdMtx, fileDescriptors, nextFd, mutexes, files,
                   call, issued, released, dirs>>

\* fh.Close() returns.  In Release its translated result is returned and the
\* deferred w.fdMtx.Unlock() runs; in the path form of Truncate it is the
\* deferred call, and the result of fh.Truncate stands.
CloseReturn(t) ==
    /\ pc[t] = "Close"
    /\ files' = [files EXCEPT ![call[t].fh].closes = @ + 1]
    /\ IF call[t].op = "Release"
       THEN /\ \E e \in AbsErrs :
                 call' = [call EXCEPT ![t].err = e, ![t].ret = convertError(e)]
            /\ fdMtx' = 0
       ELSE UNCHANGED <<call, fdMtx>>
    /\ pc' = [pc EXCEPT ![t] = "done"]
    /\ UNCHANGED <<underlying, table, issued, released, dirs>>

\* ------------------------------------------------- Opendir and Releasedir
Opendir(t) ==
    /\ Free(t)
    /\ nextFd + PendingFd < MaxFd
    /\ pc' = [pc EXCEPT ![t] = "od_lock"]
    /\ call' = [call EXCEPT ![t] = NewCall("Opendir", 0)]
    /\ UNCHANGED <<underlying, fdMtx, table, files, issued, released, dirs>>

\* Opendir: w.fdMtx.Lock()
odLock(t) ==
    /\ pc[t] = "od_lock"
    /\ fdMtx = 0
    /\ fdMtx' = t
    /\ pc' = [pc EXCEPT ![t] = "od_body"]
    /\ UNCHANGED <<underlying, table, files, call, issued, released, dirs>>

\* Opendir: w.nextFd++; return 0, w.nextFd, with the deferred unlock
odBody(t) ==
    /\ pc[t] = "od_body"
    /\ nextFd' = Incr(nextFd)
    /\ call' = [call EXCEPT ![t].ret = 0, ![t].rfd = nextFd']
    /\ issued' = issued \cup {nextFd'}
    /\ dirs' = dirs \cup {nextFd'}
    /\ fdMtx' = 0
    /\ pc' = [pc EXCEPT ![t] = "done"]
    /\ UNCHANGED <<underlying, fileDescriptors, writeLocks, mutexes, files,
                   released>>

Releasedir(t, fd) ==
    /\ Free(t)
    /\ call' = [call EXCEPT ![t] = NewCall("Releasedir", fd)]
    /\ pc' = [pc EXCEPT ![t] = "done"]
    /\ UNCHANGED <<underlying, fdMtx, table, files, issued, released, dirs>>

\* ------------------------------------------- capability-checked callbacks
\* the type assertion that finds the capability on every filesystem
HasCap_Always(c) == TRUE

\* w.underlying.(billy.Dir), .(billy.Symlink), .(billy.Change)
HasCap(c) == c \in underlying

\* A callback that needs capability c and then calls abstraction method m:
\* without the capability it returns -ENOSYS at once.
CapCall(t, op, c, m) ==
    /\ Free(t)
    /\ IF HasCap(c)
       THEN /\ call' = [call EXCEPT ![t] = NewCall(op, 0)]
            /\ pc' = [pc EXCEPT ![t] = m]
       ELSE /\ call' = [call EXCEPT ![t] =
                          [NewCall(op, 0) EXCEPT !.ret = -ENOSYS]]
            /\ pc' = [pc EXCEPT ![t] = "done"]
    /\ UNCHANGED <<underlying, fdMtx, table, files, issued, released, dirs>>

Mkdir(t) == CapCall(t, "Mkdir", "Dir", "MkdirAll")
Symlink(t) == CapCall(t, "Symlink", "Symlink", "Symlink")
Readlink(t) == CapCall(t, "Readlink", "Symlink", "Readlink")
Chmod(t) == CapCall(t, "Chmod", "Change", "Chmod")
Chown(t) == CapCall(t, "Chown", "Change", "Chown")

\* Utimens: with the capability, -EINVAL unless len(tmsp) == 2, and only
\* then cfs.Chtimes
Utimens(t, len) ==
    /\ Free(t)
    /\ LET c == [NewCall("Utimens", 0) EXCEPT !.tmsp = len] IN
       IF HasCap("Change")
       THEN IF len # 2
            THEN /\ call' = [call EXCEPT ![t] = [c EXCEPT !.ret = -EINVAL]]
                 /\ pc' = [pc EXCEPT ![t] = "done"]
            ELSE /\ call' = [call EXCEPT ![t] = c]
                 /\ pc' = [pc EXCEPT ![t] = "Chtimes"]
       ELSE /\ call' = [call EXCEPT ![t] = [c EXCEPT !.ret = -ENOSYS]]
            /\ pc' = [pc EXCEPT ![t] = "done"]
    /\ UNCHANGED <<underlying, fdMtx, table, files, issued, released, dirs>>

\* MkdirAll, Symlink, Chmod, Chown or Chtimes returns: convertError(err)
CapReturn(t) ==
    /\ pc[t] \in {"MkdirAll", "Symlink", "Chmod", "Chown", "Chtimes"}
    /\ \E e \in CapErrs :
         call' = [call EXCEPT ![t].err = e, ![t].ret = convertError(e)]
    /\ pc' = [pc EXCEPT ![t] = "done"]
    /\ UNCHANGED <<underlying, fdMtx, table, files, issued, released, dirs>>

\* fn, err := sfs.Readlink(path): (convertError(err), "") or (0, fn)
ReadlinkReturn(t) ==
    /\ pc[t] = "Readlink"
    /\ \E e \in CapErrs :
         call' = [call EXCEPT ![t].err = e, ![t].ret = convertError(e),
                    ![t].rstr = IF e # NilErr THEN "" ELSE "fn"]
    /\ pc' = [pc EXCEPT ![t] = "done"]
    /\ UNCHANGED <<underlying, fdMtx, table, files, issued, released, dirs>>

\* ------------------------------------------------------------ convertError
\* a callback hands an error to convertError
Translate(t, e) ==
    /\ Free(t)
    /\ call' = [call EXCEPT ![t] = [NewCall("convertError", 0) EXCEPT !.err = e]]
    /\ pc' = [pc EXCEPT ![t] = "convertError"]
    /\ UNCHANGED <<underlying, fdMtx, table, files, issued, released, dirs>>

\* convertError returns the code
TranslateReturn(t) ==
    /\ pc[t] = "convertError"
    /\ call' = [call EXCEPT ![t].ret = convertError(call[t].err)]
    /\ pc' = [pc EXCEPT ![t] = "done"]
    /\ UNCHANGED <<underlying, fdMtx, table, files, issued, released, dirs>>

NextConv ==
    \E t \in Threads :
        \/ \E e \in ConvInputs : Translate(t, e)
        \/ TranslateReturn(t)

SpecConv == Init /\ [][NextConv]_vars

\* ----------------------------------------------------------------- Readdir
\* Readdir: without billy.Dir it returns -ENOSYS; with it, dfs.ReadDir is
\* called.
Readdir(t) ==
    /\ Free(t)
    /\ IF HasCap("Dir")
       THEN /\ call' = [call EXCEPT ![t] = NewCall("Readdir", 0)]
            /\ pc' = [pc EXCEPT ![t] = "ReadDir"]
       ELSE /\ call' = [call EXCEPT ![t] =
                          [NewCall("Readdir", 0) EXCEPT !.ret = -ENOSYS]]
            /\ pc' = [pc EXCEPT ![t] = "done"]
    /\ UNCHANGED <<underlying, fdMtx, table, files, issued, released, dirs>>

\* entries, err := dfs.ReadDir(path) returns: an error is translated and
\* returned; otherwise the loop over the n entries starts.
ReadDirReturn(t) ==
    /\ pc[t] = "ReadDir"
    /\ \/ \E e \in CapErrs \ {NilErr} :
            /\ call' = [call EXCEPT ![t].err = e, ![t].ret = convertError(e)]
            /\ pc' = [pc EXCEPT ![t] = "done"]
       \/ \E n \in 0..MaxEntries :
            /\ call' = [call EXCEPT ![t].err = NilErr, ![t].n = n]
            /\ pc' = [pc EXCEPT ![t] = "fill"]
    /\ UNCHANGED <<underlying, fdMtx, table, files, issued, released, dirs>>

\* a Readdir that reports success after a listing
ReaddirFinal_Success(n) == 0

\* the return after the loop: -fuse.ENOSYS, however many entries were filled
ReaddirFinal(n) == -ENOSYS

\* for _, e := range entries { fill(e.Name(), st, 0) }, one entry a step
\* (the result of fill is ignored), then return -fuse.ENOSYS
Fill(t) ==
    /\ pc[t] = "fill"
    /\ IF call[t].fills < call[t].n
       THEN /\ call' = [call EXCEPT ![t].fills = @ + 1]
            /\ UNCHANGED pc
       ELSE /\ call' = [call EXCEPT ![t].ret = ReaddirFinal(call[t].n)]
            /\ pc' = [pc EXCEPT ![t] = "done"]
    /\ UNCHANGED <<underlying, fdMtx, table, files, issued, released, dirs>>

\* New is given any billy.Basic: any subset of the optional interfaces
InitCap ==
    /\ underlying \in SUBSET Caps
    /\ fdMtx = 0
    /\ fileDescriptors = <<>>
    /\ nextFd = 0
    /\ writeLocks = <<>>
    /\ mutexes = <<>>
    /\ files = <<>>
    /\ pc = [t \in Threads |-> "idle"]
    /\ call = [t \in Threads |-> NewCall("none", 0)]
    /\ issued = {}
    /\ released = {}
    /\ dirs = {}

NextCap ==
    \E t \in Threads :
        \/ Mkdir(t)
        \/ Symlink(t)
        \/ Readlink(t)
        \/ Chmod(t)
        \/ Chown(t)
        \/ \E len \in 0..MaxTmsp : Utimens(t, len)
        \/ CapReturn(t)
        \/ ReadlinkReturn(t)
        \/ Readdir(t)
        \/ ReadDirReturn(t)
        \/ Fill(t)

SpecCap == InitCap /\ [][NextCap]_vars

\* ------------------------------------ writers that block until the close
\* One more caller than Threads, and an abstraction whose Seek and Write on
\* a file without io.WriterAt do not return until Close has been called on
\* that file.
Procs == 1..(NumThreads + 1)

\* fh.Close() has been called on file f (it may not have returned yet)
CloseCalled(f) ==
    \/ files[f].closes > 0
    \/ \E t \in DOMAIN pc : pc[t] = "Close" /\ call[t].fh = f

SeekBlocked(t) ==
    /\ pc[t] = "Seek"
    /\ CloseCalled(call[t].fh)
    /\ SeekReturn(t)

WriteBlocked(t) ==
    /\ pc[t] = "Write"
    /\ CloseCalled(call[t].fh)
    /\ WriteReturn(t)

InitBlocked ==
    /\ underlying = Caps
    /\ fdMtx = 0
    /\ fileDescriptors = <<>>
    /\ nextFd = 0
    /\ writeLocks = <<>>
    /\ mutexes = <<>>
    /\ files = <<>>
    /\ pc = [t \in Procs |-> "idle"]
    /\ call = [t \in Procs |-> NewCall("none", 0)]
    /\ issued = {}
    /\ released = {}
    /\ dirs = {}

NextBlocked ==
    \E t \in Procs :
        \/ Create(t)
        \/ OpenFileReturn(t)
        \/ cfdLock(t)
        \/ cfdStore(t)
        \/ cfdNewLock(t)
        \/ \E fd \in Handles : Write(t, fd)
        \/ gflLock(t)
        \/ gflWLock(t)
        \/ WriteCheck(t)
        \/ WriteAtReturn(t)
        \/ SeekBlocked(t)
        \/ WriteBlocked(t)
        \/ \E fd \in Handles : Release(t, fd)
        \/ relLock(t)
        \/ relLookup(t)
        \/ relDelLock(t)
        \/ CloseReturn(t)

SpecBlocked == InitBlocked /\ [][NextBlocked]_vars

Next ==
    \E t \in Threads :
        \/ Create(t)
        \/ Open(t)
        \/ OpenFileReturn(t)
        \/ cfdLock(t)
        \/ cfdStore(t)
        \/ cfdNewLock(t)
        \/ gfdLock(t)
        \/ gfdLookup(t)
        \/ \E fd \in Handles \cup {NoFd} : Truncate(t, fd)
        \/ TruncateReturn(t)
        \/ \E fd \in Handles : Read(t, fd)
        \/ ReadAtReturn(t)
        \/ \E fd \in Handles : Write(t, fd)
        \/ gflLock(t)
        \/ gflWLock(t)
        \/ WriteCheck(t)
        \/ WriteAtReturn(t)
        \/ SeekReturn(t)
        \/ WriteReturn(t)
        \/ \E fd \in Handles : Release(t, fd)
        \/ relLock(t)
        \/ relLookup(t)
        \/ relDelLock(t)
        \/ CloseReturn(t)
        \/ Opendir(t)
        \/ odLock(t)
        \/ odBody(t)
        \/ \E fd \in Handles : Releasedir(t, fd)

Spec == Init /\ [][Next]_vars

\* ------------------------------------------------- fair scheduling
\* the steps at which a callback takes a lock: w.fdMtx.Lock() and
\* w.writeLocks[fd].Lock()
Acquire(t) ==
    \/ cfdLock(t)
    \/ gfdLock(t)
    \/ gflLock(t)
    \/ gflWLock(t)
    \/ relLock(t)
    \/ odLock(t)

\* every other step inside a callback, the returns of the abstraction's
\* calls included
Advance(t) ==
    \/ OpenFileReturn(t)
    \/ cfdStore(t)
    \/ cfdNewLock(t)
    \/ gfdLookup(t)
    \/ TruncateReturn(t)
    \/ ReadAtReturn(t)
    \/ WriteCheck(t)
    \/ WriteAtReturn(t)
    \/ SeekReturn(t)
    \/ WriteReturn(t)
    \/ relLookup(t)
    \/ relDelLock(t)
    \/ CloseReturn(t)
    \/ odBody(t)

\* A goroutine that can run does run, and every call into the abstraction
\* returns (weak fairness); a goroutine waiting in sync.Mutex.Lock gets the
\* mutex if it is unlocked again and again (strong fairness: a waiter that
\* fails to acquire for 1ms puts the mutex in starvation mode, and Unlock
\* then hands the mutex to the waiter at the front of the queue).
Fairness ==
    \A t \in Threads : WF_vars(Advance(t)) /\ SF_vars(Acquire(t))

\* callbacks are started on handles that are in the table
NextFair ==
    \E t \in Threads :
        \/ Create(t)
        \/ Open(t)
        \/ Opendir(t)
        \/ Truncate(t, NoFd)
        \/ \E fd \in DOMAIN fileDescriptors :
              \/ Read(t, fd)
              \/ Write(t, fd)
              \/ Truncate(t, fd)
              \/ Release(t, fd)
        \/ Acquire(t)
        \/ Advance(t)

SpecFair == Init /\ [][NextFair]_vars /\ Fairness

\* ================================================================ claims
Returned(t, op) == pc[t] = "done" /\ call[t].op = op
ErrorCodes == {-EEXIST, -ENOENT, -EPERM, -EINVAL, -EIO}
\* ret is the translation of err: 0 for nil and an error code otherwise
Translated(ret, err) ==
    /\ err # NoErr
    /\ err = NilErr => ret = 0
    /\ err # NilErr => ret \in ErrorCodes
    /\ err = {"notexist"} => ret = -ENOENT
    /\ err = {"closed"} => ret = -EINVAL
    /\ err = {} => ret = -EIO
HoldsMutex(t) == \E m \in DOMAIN mutexes : mutexes[m] = t

\* C1: a Write whose handle is not in the table (released, never issued, or
\* issued by Opendir) ends by returning -EINVAL.
C1_WriteNotResidentEINVAL ==
    \A t \in Threads :
        (call[t].op = "Write" /\ pc[t] \in {"done", "panic"} /\ ~call[t].ok)
            => (pc[t] = "done" /\ call[t].ret = -EINVAL)

GotHandle(t) ==
    /\ pc[t] = "done"
    /\ call[t].op \in {"Create", "Open", "Opendir"}
    /\ call[t].ret = 0
C2_DistinctNow ==
    /\ 0 \notin issued
    /\ \A t \in Threads : GotHandle(t) => call[t].rfd >= 1
    /\ \A t1, t2 \in Threads :
         (t1 # t2 /\ GotHandle(t1) /\ GotHandle(t2))
            => call[t1].rfd # call[t2].rfd
C2_FreshStep ==
    /\ nextFd' >= nextFd
    /\ \A t \in Threads :
         (pc[t] # "done" /\ GotHandle(t)')
            => /\ call'[t].rfd \notin issued
               /\ \A g \in issued : call'[t].rfd > g
               /\ call'[t].rfd = nextFd'
\* C2: handles returned by Create, Open and Opendir are pairwise distinct
\* and never 0; nextFd never decreases; a handle, when it is returned, was
\* never returned before and is greater than every handle returned before.
C2_HandlesDistinct == [](C2_DistinctNow) /\ [][C2_FreshStep]_vars
C2_Witness ==
    /\ \E t1, t2 \in Threads :
         /\ GotHandle(t1) /\ call[t1].op = "Create"
         /\ GotHandle(t2) /\ call[t2].op = "Opendir"
         /\ call[t1].rfd \in released
         /\ call[t2].rfd > call[t1].rfd

C3_LookupStep ==
    \A t \in Threads :
        (/\ pc[t] \in {"gfd_lookup", "rel_lookup"}
         /\ call[t].fd \in released
         /\ pc'[t] # pc[t])
            => (pc'[t] = "done" /\ call'[t].ret = -EINVAL /\ ~call'[t].ok)
\* C3: a handle removed by Release is never found again: it is never in the
\* table, and every later lookup by Read, Truncate or Release returns
\* -EINVAL without going on to the file object.
C3_ReleasedNeverFound ==
    /\ [](released \cap DOMAIN fileDescriptors = {})
    /\ [][C3_LookupStep]_vars
C3_Witness ==
    /\ fileDescriptors # <<>>
    /\ \E t1, t2 \in Threads :
         /\ t1 # t2
         /\ Returned(t1, "Read") /\ call[t1].fd \in released
         /\ call[t1].ret = -EINVAL
         /\ Returned(t2, "Release") /\ call[t2].fd = call[t1].fd
         /\ ~call[t2].ok /\ call[t2].ret = -EINVAL

InFallback(t) == pc[t] \in {"Seek", "Write"}
\* C4: on a handle whose file has no WriteAt, at most one Write is between
\* calling Seek and returning from Write, and that one holds the handle's
\* write lock throughout.
C4_OneFallbackWrite ==
    /\ \A t \in Threads :
         InFallback(t) => /\ call[t].unlock \in DOMAIN mutexes
                          /\ mutexes[call[t].unlock] = t
    /\ \A t1, t2 \in Threads :
         (t1 # t2 /\ InFallback(t1) /\ InFallback(t2))
            => call[t1].fd # call[t2].fd
C4_Witness ==
    \E t1, t2 \in Threads :
        /\ pc[t1] = "Write"
        /\ pc[t2] = "gfl_wlock"
        /\ call[t2].fd = call[t1].fd
        /\ call[t2].ok
        /\ ~files[call[t1].fh].writerAt

\* C5: a Write that is inside WriteAt holds neither its handle's write lock
\* nor any other lock, so every held write lock belongs to a Write that is
\* not in WriteAt.
C5_PositionedWriteUnlocked ==
    /\ \A t \in Threads :
         pc[t] = "WriteAt" => (~HoldsMutex(t) /\ fdMtx # t)
    /\ \A m \in DOMAIN mutexes :
         mutexes[m] # 0 => pc[mutexes[m]] \in {"w_check", "Seek", "Write"}
C5_Witness ==
    \E t1, t2 \in Threads :
        /\ t1 # t2
        /\ pc[t1] = "WriteAt" /\ pc[t2] = "WriteAt"
        /\ call[t1].fd = call[t2].fd

\* C6: no thread inside a call of the abstraction holds fdMtx.
C6_NoTableLockInAbstraction ==
    \A t \in Threads : InAbstraction(t) => fdMtx # t

\* C7: a Release that found its handle has removed the handle's file and
\* write lock from the table and closed the file, and returns 0 if Close
\* succeeded and the error code of the Close error otherwise.
C7_ReleaseRemoves ==
    \A t \in Threads :
        (Returned(t, "Release") /\ call[t].ok)
            => /\ call[t].fd \notin DOMAIN fileDescriptors
               /\ call[t].fd \notin DOMAIN writeLocks
               /\ files[call[t].fh].closes = 1
               /\ Translated(call[t].ret, call[t].err)
C7_Witness ==
    \E t \in Threads :
        /\ Returned(t, "Release") /\ call[t].ok
        /\ call[t].err = {"closed"} /\ call[t].ret = -EINVAL

C8_Step ==
    /\ \A t \in Threads :
         (/\ call[t].op \in {"Create", "Open"}
          /\ pc[t] = "OpenFile" /\ pc'[t] # pc[t])
            => /\ UNCHANGED <<table, fdMtx>>
               /\ pc'[t] = "done"
                    => /\ call'[t].err # NilErr
                       /\ Translated(call'[t].ret, call'[t].err)
                       /\ call'[t].rfd = 0
               /\ pc'[t] = "cfd_lock" => call'[t].err = NilErr
    /\ \A t \in Threads :
         (pc[t] = "cfd_mutex" /\ pc'[t] = "done")
            => LET h == call'[t].rfd IN
               /\ call'[t].ret = 0
               /\ h \notin issued /\ h # 0
               /\ h \in DOMAIN fileDescriptors'
               /\ fileDescriptors'[h] = call[t].fh
               /\ h \notin DOMAIN writeLocks
               /\ h \in DOMAIN writeLocks'
               /\ writeLocks'[h] \notin DOMAIN mutexes
               /\ mutexes'[writeLocks'[h]] = 0
    /\ (fileDescriptors' # fileDescriptors \/ nextFd' # nextFd)
          => \E t \in Threads :
                \/ pc[t] = "cfd_store" /\ call[t].err = NilErr
                \/ pc[t] \in {"rel_lookup", "od_body"}
\* C8: Create and Open change the table only after OpenFile succeeded.  When
\* OpenFile fails they return (error code, 0) and table, counter and locks
\* are as before; when it succeeds they return (0, h) with h not returned
\* before, h mapped to the opened file and to a new, unlocked mutex.
C8_RegisterOnSuccess == [][C8_Step]_vars
C8_Witness ==
    \E t1, t2 \in Threads :
        /\ Returned(t1, "Open") /\ call[t1].err = {"notexist"}
        /\ call[t1].ret = -ENOENT /\ call[t1].rfd = 0
        /\ Returned(t2, "Create") /\ call[t2].ret = 0
        /\ call[t2].rfd \in DOMAIN fileDescriptors
        /\ mutexes[writeLocks[call[t2].rfd]] = 0

PathTruncate(t) == call[t].op = "Truncate" /\ call[t].fd = NoFd
C9_Now ==
    \A t \in Threads :
        PathTruncate(t)
            => /\ pc[t] \in {"OpenFile", "Truncate", "Close", "done"}
               /\ fdMtx # t
               /\ pc[t] = "done"
                    => /\ Translated(call[t].ret, call[t].err)
                       /\ IF call[t].fh = 0
                          THEN call[t].err # NilErr
                          ELSE files[call[t].fh].closes = 1
C9_Step ==
    \A t \in Threads :
        (PathTruncate(t)' /\ pc'[t] # pc[t]) => UNCHANGED <<table, fdMtx>>
\* C9: Truncate with the "no handle" value never takes fdMtx and never
\* changes the table or the counter; when it returns, the file it opened is
\* closed, and its result is the error code of the failed OpenFile or the
\* translated result of fh.Truncate.
C9_PathTruncateTransient == [](C9_Now) /\ [][C9_Step]_vars
C9_Witness ==
    /\ nextFd = 0 /\ fileDescriptors = <<>>
    /\ \E t1, t2 \in Threads :
         /\ t1 # t2
         /\ PathTruncate(t1) /\ pc[t1] = "done"
         /\ call[t1].fh # 0 /\ call[t1].err = {} /\ call[t1].ret = -EIO
         /\ files[call[t1].fh].closes = 1
         /\ PathTruncate(t2) /\ pc[t2] = "done"
         /\ call[t2].fh # 0 /\ call[t2].ret = 0

CapOps == {"Mkdir", "Symlink", "Readlink", "Chmod", "Chown", "Utimens"}
CapOf(op) ==
    CASE op = "Mkdir" -> "Dir"
      [] op \in {"Symlink", "Readlink"} -> "Symlink"
      [] OTHER -> "Change"
Invoked(t) == call[t].err # NoErr
\* C10 as claimed: a capability-checked callback returns -ENOSYS without
\* calling the abstraction when the capability is absent, and otherwise
\* calls the abstraction and returns its translated result.
C10_CapabilityOrENOSYS ==
    \A t \in Threads :
        (pc[t] = "done" /\ call[t].op \in CapOps)
            => IF CapOf(call[t].op) \in underlying
               THEN Invoked(t) /\ call[t].ret = convertError(call[t].err)
               ELSE ~Invoked(t) /\ call[t].ret = -ENOSYS

\* C10 amended: as above, except that Utimens with the capability present and
\* a timestamp slice whose length is not 2 returns -EINVAL without calling
\* the abstraction.
C10_CapabilityOrENOSYS_Amended ==
    \A t \in Threads :
        (pc[t] = "done" /\ call[t].op \in CapOps)
            => IF CapOf(call[t].op) \notin underlying
               THEN ~Invoked(t) /\ call[t].ret = -ENOSYS
               ELSE IF call[t].op = "Utimens" /\ call[t].tmsp # 2
               THEN ~Invoked(t) /\ call[t].ret = -EINVAL
               ELSE Invoked(t) /\ call[t].ret = convertError(call[t].err)
C10_Witness ==
    \E t1, t2 \in Threads :
        /\ underlying = {"Change"}
        /\ Returned(t1, "Mkdir") /\ call[t1].ret = -ENOSYS
        /\ Returned(t2, "Utimens") /\ call[t2].tmsp = 2
        /\ call[t2].err = {"perm"} /\ call[t2].ret = -EPERM

\* C11 as claimed: Readdir returns -ENOSYS whenever it returns: without the
\* capability, after a listing that succeeded, and after one that failed.
C11_ReaddirAlwaysENOSYS ==
    \A t \in Threads : Returned(t, "Readdir") => call[t].ret = -ENOSYS

\* C11 amended: Readdir returns -ENOSYS without calling the abstraction when
\* directory listing is absent, and -ENOSYS after a listing that succeeded,
\* with fill called once per entry; after a listing that failed it returns
\* the translated error and fill was not called.
C11_ReaddirENOSYSUnlessListingFails ==
    \A t \in Threads :
        Returned(t, "Readdir")
            => IF "Dir" \notin underlying
               THEN /\ ~Invoked(t)
                    /\ call[t].ret = -ENOSYS /\ call[t].fills = 0
               ELSE IF call[t].err = NilErr
               THEN call[t].ret = -ENOSYS /\ call[t].fills = call[t].n
               ELSE /\ Invoked(t)
                    /\ call[t].ret = convertError(call[t].err)
                    /\ call[t].ret \in ErrorCodes
                    /\ call[t].fills = 0
C11_Witness ==
    \E t1, t2 \in Threads :
        /\ Returned(t1, "Readdir") /\ call[t1].err = NilErr
        /\ call[t1].n = MaxEntries /\ call[t1].fills = MaxEntries
        /\ call[t1].ret = -ENOSYS
        /\ Returned(t2, "Readdir") /\ call[t2].err = {"notexist"}
        /\ call[t2].ret = -ENOENT

\* the classes in the order convertError tests them, and their codes
ClassOrder == <<"exist", "notexist", "perm", "invalid", "closed">>
ClassCode == <<-EEXIST, -ENOENT, -EPERM, -EINVAL, -EINVAL>>
FirstClass(err) ==
    CHOOSE i \in 1..Len(ClassOrder) :
        /\ ClassOrder[i] \in err
        /\ \A j \in 1..(i - 1) : ClassOrder[j] \notin err
ExpectedCode(err) ==
    IF err = NilErr THEN 0
    ELSE IF err \cap ErrClasses # {} THEN ClassCode[FirstClass(err)]
    ELSE -EIO

\* C12: convertError maps nil to 0, an error to the code of the first class
\* it is in (EEXIST, ENOENT, EPERM, EINVAL) and any other error to EIO; it
\* yields 0 only for nil and never ENOSYS.
C12_TranslationByClass ==
    \A t \in Threads :
        Returned(t, "convertError")
            => /\ call[t].ret = ExpectedCode(call[t].err)
               /\ call[t].ret = 0 <=> call[t].err = NilErr
               /\ call[t].ret \in {0} \cup ErrorCodes
               /\ call[t].ret # -ENOSYS
C12_Witness ==
    \E t1, t2 \in Threads :
        /\ Returned(t1, "convertError") /\ call[t1].err = {"notexist"}
        /\ call[t1].ret = -ENOENT
        /\ Returned(t2, "convertError") /\ call[t2].err = {"invalid", "closed"}
        /\ call[t2].ret = -EINVAL

C13_Now ==
    \A t \in Threads :
        call[t].op = "Read"
            => /\ ~HoldsMutex(t) /\ call[t].unlock = 0
               /\ (pc[t] = "done" /\ call[t].ok)
                    => /\ call[t].n > 0 => call[t].ret = call[t].n
                       /\ call[t].err = EOF => call[t].ret = call[t].n
                       /\ (call[t].n = 0 /\ call[t].err # EOF)
                            => Translated(call[t].ret, call[t].err)
               /\ (pc[t] = "done" /\ ~call[t].ok) => call[t].ret = -EINVAL
C13_Step ==
    \A t \in Threads :
        (call'[t].op = "Read" /\ pc'[t] # pc[t]) => UNCHANGED table
\* C13: a Read that found its handle returns the count n of ReadAt when
\* n > 0 or ReadAt reported end-of-stream, and the translated error
\* otherwise; no step of Read takes a write lock or changes the table, the
\* counter or a mutex.
C13_ReadResult == [](C13_Now) /\ [][C13_Step]_vars
C13_Witness ==
    \E t1, t2 \in Threads :
        /\ Returned(t1, "Read") /\ call[t1].ok
        /\ call[t1].n > 0 /\ call[t1].err = {"closed"}
        /\ call[t1].ret = call[t1].n
        /\ Returned(t2, "Read") /\ call[t2].ok
        /\ call[t2].n = 0 /\ call[t2].err = EOF /\ call[t2].ret = 0

C14_Now ==
    /\ fdMtx = 0 => DOMAIN fileDescriptors = DOMAIN writeLocks
    /\ DOMAIN fileDescriptors # DOMAIN writeLocks
          => \E t \in Threads :
                /\ fdMtx = t
                /\ pc[t] \in {"cfd_mutex", "rel_dellock"}
C14_Step ==
    /\ \A h \in (DOMAIN fileDescriptors' \ DOMAIN fileDescriptors)
               \cup (DOMAIN writeLocks' \ DOMAIN writeLocks) :
         \E t \in Threads :
            /\ fdMtx = t /\ call[t].op \in {"Create", "Open"}
            /\ pc[t] \in {"cfd_store", "cfd_mutex"} /\ pc'[t] # pc[t]
            /\ call'[t].rfd = h
    /\ \A h \in (DOMAIN fileDescriptors \ DOMAIN fileDescriptors')
               \cup (DOMAIN writeLocks \ DOMAIN writeLocks') :
         \E t \in Threads :
            /\ fdMtx = t /\ call[t].op = "Release" /\ call[t].fd = h
            /\ pc[t] \in {"rel_lookup", "rel_dellock"} /\ pc'[t] # pc[t]
\* C14: whenever fdMtx is free, the handles with a file object are the
\* handles with a write lock; the two sets differ only while a Create, Open
\* or Release holds fdMtx between its two map updates, and no other step
\* adds or removes an entry of either map.
C14_FilesAndLocksPaired == [](C14_Now) /\ [][C14_Step]_vars
C14_Witness ==
    /\ fdMtx = 0
    /\ DOMAIN fileDescriptors # {}
    /\ released # {}
    /\ \E t1, t2 \in Threads :
         /\ pc[t1] = "panic" /\ call[t1].fd \in released
         /\ Returned(t2, "Read") /\ ~call[t2].ok

\* C15: a write lock is held only by a Write that is between taking it and
\* its unlock(); a Write that took a lock and has returned has called
\* unlock() exactly once and no longer holds it, so no lock is held once
\* every Write has returned.
C15_WriteUnlocksOnce ==
    /\ \A m \in DOMAIN mutexes :
         mutexes[m] # 0
            => /\ call[mutexes[m]].op = "Write"
               /\ pc[mutexes[m]] \in {"w_check", "Seek", "Write"}
               /\ call[mutexes[m]].unlock = m
               /\ call[mutexes[m]].unlocks = 0
    /\ \A t \in Threads :
         (call[t].op = "Write" /\ call[t].unlock # 0)
            => /\ call[t].unlocks <= 1
               /\ pc[t] \in {"WriteAt", "done"}
                    => /\ call[t].unlocks = 1
                       /\ mutexes[call[t].unlock] # t
    /\ (\A t \in Threads : call[t].op = "Write" => Free(t))
          => \A m \in DOMAIN mutexes : mutexes[m] = 0
C15_Witness ==
    \E t1, t2 \in Threads :
        /\ Returned(t1, "Write") /\ call[t1].ok
        /\ ~files[call[t1].fh].writerAt
        /\ call[t1].err = {"closed"} /\ call[t1].unlocks = 1
        /\ mutexes[call[t1].unlock] = 0
        /\ call[t1].fd \in released
        /\ Returned(t2, "Release") /\ call[t2].ok /\ call[t2].fd = call[t1].fd

\* C16: a Release(h) issued while a fallback write on h is blocked in the
\* abstraction until the file is closed never waits for that writer: it is
\* never queued for the table lock behind a Write that holds the table lock
\* while waiting for the write lock the blocked writer holds.
C16_ReleaseNotBehindWriter ==
    \A r, w, b \in DOMAIN pc :
        ~ /\ call[r].op = "Release" /\ pc[r] = "rel_lock"
          /\ call[r].fd \in DOMAIN fileDescriptors
          /\ fdMtx = w /\ pc[w] = "gfl_wlock"
          /\ call[w].fd = call[r].fd
          /\ call[w].fd \in DOMAIN writeLocks
          /\ mutexes[writeLocks[call[w].fd]] = b
          /\ pc[b] \in {"Seek", "Write"}
          /\ call[b].fh = fileDescriptors[call[r].fd]
          /\ ~CloseCalled(call[b].fh)

\* t waits for a write lock held by a fallback write that is inside the
\* abstraction (fh.Seek or fh.Write)
WaitsForWriteLock(t) ==
    /\ pc[t] = "gfl_wlock"
    /\ call[t].fd \in DOMAIN writeLocks
    /\ ~MutexFree(writeLocks[call[t].fd])
    /\ pc[mutexes[writeLocks[call[t].fd]]] \in {"Seek", "Write"}
\* C17: no thread holds the table-wide lock while it waits for a write
\* lock behind a slow fallback write, so a callback on a different handle
\* that needs the table-wide lock is never held up by such a waiter.
C17_NoTableLockWhileWaiting ==
    \A t \in DOMAIN pc : WaitsForWriteLock(t) => fdMtx # t

C18_Now ==
    /\ dirs \cap (DOMAIN fileDescriptors \cup DOMAIN writeLocks) = {}
    /\ \A t \in Threads :
         /\ Returned(t, "Opendir")
              => call[t].ret = 0 /\ call[t].rfd \in dirs
         /\ Returned(t, "Releasedir") => call[t].ret = 0
         /\ (pc[t] = "done" /\ call[t].op \in {"Read", "Release"}
               /\ call[t].fd \in dirs)
              => ~call[t].ok /\ call[t].ret = -EINVAL
C18_Step ==
    \A t \in Threads :
        /\ (pc[t] = "od_body" /\ pc'[t] # pc[t])
             => /\ pc'[t] = "done"
                /\ call'[t].ret = 0
                /\ call'[t].rfd = nextFd' /\ nextFd' = nextFd + 1
                /\ call'[t].rfd \notin issued
                /\ UNCHANGED <<fileDescriptors, writeLocks, mutexes, files>>
        /\ (Free(t) /\ call'[t].op = "Releasedir" /\ call'[t] # call[t])
             => /\ pc'[t] = "done"
                /\ call'[t].ret = 0
                /\ UNCHANGED <<table, files, fdMtx>>
\* C18: Opendir returns 0 and a fresh handle, nextFd after its increment,
\* and stores no file object and no write lock, so a handle issued by
\* Opendir is never in the table and a Read or Release on it returns
\* -EINVAL; Releasedir returns 0 for every argument and changes neither
\* the table, the counter nor any file.
C18_OpendirOpaque == [](C18_Now) /\ [][C18_Step]_vars
C18_Witness ==
    /\ dirs # {} /\ DOMAIN fileDescriptors # {}
    /\ \E t1, t2 \in Threads :
         /\ Returned(t1, "Release") /\ call[t1].fd \in dirs
         /\ call[t1].ret = -EINVAL
         /\ Returned(t2, "Releasedir") /\ call[t2].fd \in dirs

C19_Discipline ==
    \A t \in Threads :
        /\ \A m \in DOMAIN mutexes :
             (mutexes'[m] = t /\ mutexes[m] # t) => fdMtx = t
        /\ (fdMtx' = t /\ fdMtx # t) => ~HoldsMutex(t)
C19_PanicOnlyAbsent ==
    \A t \in Threads :
        pc[t] = "panic" => call[t].op = "Write" /\ ~call[t].ok
C19_Live ==
    \A t \in Threads :
        (~Free(t)) ~> (pc[t] = "done" \/ (pc[t] = "panic" /\ ~call[t].ok))
\* C19: a write lock is acquired only by a thread that holds fdMtx, and
\* fdMtx is never acquired by a thread that holds a write lock; under fair
\* scheduling and an abstraction whose calls return, every callback started
\* on a handle in the table eventually returns, the one exception being a
\* Write whose handle is gone from the table when it is looked up.
C19_DeadlockFree ==
    /\ [](C19_PanicOnlyAbsent)
    /\ [][C19_Discipline]_vars
    /\ C19_Live
C19_Witness ==
    \E t1, t2 \in Threads :
        /\ WaitsForWriteLock(t1) /\ fdMtx = t1
        /\ mutexes[writeLocks[call[t1].fd]] = t2
        /\ pc[t2] = "Write" /\ call[t2].fd = call[t1].fd
        /\ Cardinality(DOMAIN fileDescriptors) = MaxFd

\* Close calls on file f that Release has committed to and not yet finished
ClosesPending(f) ==
    Cardinality({t \in Threads :
        /\ call[t].op = "Release" /\ call[t].fh = f
        /\ pc[t] \in {"rel_dellock", "Close"}})
\* C20: a file registered by Create/Open is closed at most once: it is not
\* closed while its handle is in the table, a Release that finds the entry
\* removes it and closes the file once, no two Releases find the same
\* handle, and a Release that does not find it returns -EINVAL without
\* calling Close.
C20_ClosedAtMostOnce ==
    /\ \A f \in DOMAIN files : files[f].closes + ClosesPending(f) <= 1
    /\ \A h \in DOMAIN fileDescriptors :
         /\ files[fileDescriptors[h]].closes = 0
         /\ ClosesPending(fileDescriptors[h]) = 0
    /\ \A t \in Threads :
         Returned(t, "Release")
            => IF call[t].ok
               THEN /\ files[call[t].fh].closes = 1
                    /\ call[t].fd \in released
                    /\ call[t].err # NoErr
               ELSE /\ call[t].ret = -EINVAL
                    /\ call[t].err = NoErr
    /\ \A t1, t2 \in Threads :
         (/\ t1 # t2
          /\ call[t1].op = "Release" /\ call[t2].op = "Release"
          /\ call[t1].fd = call[t2].fd
          /\ pc[t1] \in {"rel_dellock", "Close", "done"}
          /\ pc[t2] \in {"rel_dellock", "Close", "done"})
            => ~(call[t1].ok /\ call[t2].ok)
C20_Witness ==
    \E t1, t2 \in Threads :
        /\ Returned(t1, "Release") /\ call[t1].ok
        /\ files[call[t1].fh].closes = 1
        /\ Returned(t2, "Release") /\ ~call[t2].ok
        /\ call[t2].fd = call[t1].fd /\ call[t2].ret = -EINVAL
====
